---- MODULE Spec2Model ----
(***************************************************************************)
(* Model of the query-batching and retrieval engine:                       *)
(*   src/src/query_builder.py  create_query, _build_batch, split_terms     *)
(*   src/src/search.py         SearchManager                               *)
(*   src/src/api_client.py     EntrezClient                                *)
(* A Python str is a sequence of one-character strings.                    *)
(* Specifications, all over the same variables:                            *)
(*   SpecSplit     split_terms, one step per statement group of its loop    *)
(*   SpecFormat    _format_article, one step per articleids entry           *)
(*   SpecRequest   _make_request under its retry decorator                  *)
(*   SpecFetch     fetch_summary, one step per page                         *)
(*   Spec          batch_search with its pool threads and the remote service *)
(*   SpecDispatch  Spec with an executor whose submit can raise             *)
(*   SpecFilter    the comprehension of search_pubmed_pmc, one step a result *)
(*   SpecPmc       search_pubmed_pmc from its call, through batch_search     *)
(*   SpecCompose   create_query, one step per statement                      *)
(***************************************************************************)
EXTENDS Integers, Sequences, FiniteSets, TLC

(***************************************************************************)
(* Bounds of the model.                                                    *)
(***************************************************************************)
\* longest device list and longest indicator list of a composed query
MaxTerms == 3

\* longest articleids list of a raw record
MaxIds == 3

\* most terms per side of the queries given to batch_search
MaxRepeat == 5

\* largest total_results given to fetch_summary on its own
MaxTotal == 5

VARIABLES
  \* split_terms: its arguments, its locals and its return value
  s_pc,              \* "entry", "device", "indicator", "close", "return", "done"
  term,              \* the query string
  batch_size,        \* the budget
  api_key,           \* the API key argument, <<>> for None
  api_key_length,    \* line 67
  device_terms,      \* line 60
  indicator_terms,   \* line 61
  date_part,         \* line 58
  walk,              \* i, added, current_devices, current_indicators, current_length, batches
  s_result,          \* the list returned, <<>> before the return
  \* history of split_terms: what the query was composed of, what was emitted
  in_kind,           \* "composed": create_query's output, "plain": one group, no " AND "
  in_devices,
  in_indicators,
  emitted,           \* the (current_devices, current_indicators) of each emitted batch
  pending_at,        \* the indices at which the pending terms were accepted
  emitted_at         \* the same for each emitted batch

VARIABLES
  \* SearchManager._format_article: its argument, its locals and its return value
  f_pc,              \* "scan", "format", "done"
  article_data,      \* the raw record: uid and articleids
  f_k,               \* the number of articleids entries scanned
  f_pmid,            \* the local pmid
  f_result           \* the dictionary returned

VARIABLES
  \* SearchManager.batch_search: its arguments, its locals, its threads
  m_pc,              \* the orchestrating thread: "idle", "check", "single", "submit",
                     \* "collect", "shutdown", "done"
  max_url_length,    \* client.max_url_length
  batches,           \* line 110
  next_submit,       \* the batch the dictionary comprehension of line 119 submits next
  queue,             \* the pool's work queue: indices of batches submitted, not yet taken
  futures,           \* per submitted batch: state, result, exception
  proc,              \* per thread (0: the orchestrating thread, 1..MaxWorkers: the pool):
                     \* the frame of _process_single_query or _process_batch
  response,          \* the remote service's records per unit of work (0: the full query)
  results,           \* line 115
  seen_pmcids,       \* line 116
  yielded,           \* the futures as_completed has handed out
  outcome,           \* "none", "returned", or the exception that left batch_search
  ret,               \* the list returned
  raised,            \* the exception travelling through the with block, "none" if none
  error_log,         \* the records logger.error has written
  \* history of batch_search
  merge_log,         \* every record handed to the merge, in merge order, with its batch
  exhausted,         \* the units whose submit-search used up the gateway's attempts
  taken              \* per batch, the pool threads that took it from the queue

VARIABLES
  \* EntrezClient._make_request under its retry decorator: one esearch call
  r_pc,              \* "idle", "attempt", "wait", "done"
  attempt_number,    \* the attempts tenacity has started
  r_waits,           \* the backoff waits tenacity has slept, in seconds
  network_calls,     \* the calls of session.request
  r_raised,          \* what the last attempt raised, "none" if nothing
  r_outcome          \* "none", "response", or the exception that left the call

requestVars == <<r_pc, attempt_number, r_waits, network_calls, r_raised, r_outcome>>

VARIABLES
  \* EntrezClient.fetch_summary: its arguments, its locals and its return value
  fs_pc,             \* "idle", "loop", "done"
  total_results,
  retmax,
  retstart,          \* the loop variable of line 61
  all_results,       \* line 59
  fs_windows,        \* history: the (retstart, retmax) of every esummary request
  fs_result          \* the list returned

fetchVars == <<fs_pc, total_results, retmax, retstart, all_results, fs_windows, fs_result>>

VARIABLES
  \* SearchManager.search_pubmed_pmc and search_pmc: arguments, locals, return value
  p_pc,              \* "idle", "search_pmc", "batch_search", "filter", "done"
  query,             \* the query argument
  start_year,        \* 0 for None: both are false at line 155
  end_year,
  pmc_results,       \* line 177: what search_pmc returned
  p_k,               \* the results the comprehension of line 178 has looked at
  p_ret              \* the list the comprehension builds

pmcVars == <<p_pc, query, start_year, end_year, pmc_results, p_k, p_ret>>

VARIABLES
  \* QueryBuilder.create_query: its arguments, its locals and its return value
  c_pc,              \* "idle", "devices", "indicators", "return", "done"
  c_devices,
  c_indicators,
  c_device_query,     \* line 26
  c_indicator_query,  \* line 27
  c_result           \* the string returned

composeVars == <<c_pc, c_devices, c_indicators, c_device_query, c_indicator_query,
                 c_result>>

searchVars ==
  <<m_pc, max_url_length, batches, next_submit, queue, futures, proc, response, results,
    seen_pmcids, yielded, outcome, ret, raised, error_log, merge_log, exhausted, taken>>

splitVars ==
  <<s_pc, term, batch_size, api_key, api_key_length, device_terms, indicator_terms,
    date_part, walk, s_result, in_kind, in_devices, in_indicators, emitted, pending_at,
    emitted_at>>

formatVars == <<f_pc, article_data, f_k, f_pmid, f_result>>

\* what split_terms leaves alone
notSplitVars == <<formatVars, searchVars, requestVars, fetchVars, pmcVars, composeVars>>

\* what _format_article leaves alone
notFormatVars == <<splitVars, searchVars, requestVars, fetchVars, pmcVars, composeVars>>

\* what batch_search leaves alone: split_terms runs inside one of its steps
notSearchVars ==
  <<s_pc, api_key, api_key_length, device_terms, indicator_terms, date_part, walk,
    s_result, in_kind, in_devices, in_indicators, emitted, pending_at, emitted_at,
    formatVars, requestVars, fetchVars, pmcVars, composeVars>>

\* what _make_request leaves alone
notRequestVars == <<splitVars, formatVars, searchVars, fetchVars, pmcVars, composeVars>>

\* what fetch_summary leaves alone
notFetchVars == <<splitVars, formatVars, searchVars, requestVars, pmcVars, composeVars>>

\* what the comprehension of search_pubmed_pmc leaves alone
notFilterVars ==
  <<splitVars, formatVars, searchVars, requestVars, fetchVars, composeVars, query,
    start_year, end_year>>

\* what create_query leaves alone
notComposeVars == <<splitVars, formatVars, searchVars, requestVars, fetchVars, pmcVars>>

vars == <<splitVars, formatVars, searchVars, requestVars, fetchVars, pmcVars, composeVars>>

(***************************************************************************)
(* Python str operations used by the code.                                 *)
(***************************************************************************)
Min(a, b) == IF a < b THEN a ELSE b

Max(a, b) == IF a < b THEN b ELSE a

\* s.startswith(p)
StartsWith(s, p) == Len(s) >= Len(p) /\ SubSeq(s, 1, Len(p)) = p

\* s.find(sep) + 1: the first position where sep occurs in s, 0 when none
Find(s, sep) ==
  LET at == {i \in 1..(Len(s) - Len(sep) + 1) : SubSeq(s, i, i + Len(sep) - 1) = sep}
  IN IF at = {} THEN 0 ELSE CHOOSE i \in at : \A j \in at : i <= j

\* s.split(sep): the pieces of s between the non-overlapping occurrences of
\* sep, scanned left to right; always at least one piece
RECURSIVE Split(_, _)
Split(s, sep) ==
  LET i == Find(s, sep)
  IN IF i = 0 THEN <<s>>
     ELSE <<SubSeq(s, 1, i - 1)>> \o Split(SubSeq(s, i + Len(sep), Len(s)), sep)

\* s.strip(chars): s without its leading and trailing characters in chars
RECURSIVE LStrip(_, _)
LStrip(s, chars) ==
  IF s # <<>> /\ Head(s) \in chars THEN LStrip(Tail(s), chars) ELSE s

RECURSIVE RStrip(_, _)
RStrip(s, chars) ==
  IF s # <<>> /\ s[Len(s)] \in chars THEN RStrip(SubSeq(s, 1, Len(s) - 1), chars) ELSE s

Strip(s, chars) == RStrip(LStrip(s, chars), chars)

\* sep.join(list)
RECURSIVE Join(_, _)
Join(list, sep) ==
  IF list = <<>> THEN <<>>
  ELSE IF Len(list) = 1 THEN list[1]
  ELSE list[1] \o sep \o Join(Tail(list), sep)

\* the characters urllib.parse.quote never encodes
Unreserved ==
  {"A","B","C","D","E","F","G","H","I","J","K","L","M","N","O","P","Q","R","S","T",
   "U","V","W","X","Y","Z","a","b","c","d","e","f","g","h","i","j","k","l","m","n",
   "o","p","q","r","s","t","u","v","w","x","y","z","0","1","2","3","4","5","6","7",
   "8","9","_",".","-","~"}

\* len(urllib.parse.quote(s, safe=safe)) for ASCII s: a character outside
\* Unreserved and safe becomes %XX
RECURSIVE QuoteLen(_, _)
QuoteLen(s, safe) ==
  IF s = <<>> THEN 0
  ELSE (IF Head(s) \in Unreserved \cup safe THEN 1 ELSE 3) + QuoteLen(Tail(s), safe)

\* the default safe characters of urllib.parse.quote
DefaultSafe == {"/"}

(***************************************************************************)
(* String literals of the code.                                            *)
(***************************************************************************)
AND == <<" ", "A", "N", "D", " ">>

OR == <<" ", "O", "R", " ">>

Parens == {"(", ")"}

ParensSpace == {"(", ")", " "}

DQuote == <<"\"">>

(***************************************************************************)
(* query_builder.py                                                        *)
(***************************************************************************)
\* the fixed per-term overhead added to each encoded term length
TermOverhead == 4

\* the default character budget of a batch
DefaultBatchSize == 1000

\* a slip of the comprehensions of lines 26-27: the terms are not quoted
QuotedBare(terms) == terms

\* each term of the list in double quotes
Quoted(terms) == [k \in 1..Len(terms) |-> DQuote \o terms[k] \o DQuote]

create_query(devices, indicators) ==
  LET device_query == Join(Quoted(devices), OR)
      indicator_query == Join(Quoted(indicators), OR)
  IN <<"(">> \o device_query \o <<")">> \o AND \o <<"(">> \o indicator_query \o <<")">>

\* a slip of the rebuild: the date clause is not re-attached
BuildBatchNoDate(devices, indicators, date) ==
  <<"(">> \o Join(devices, OR) \o <<")">> \o AND \o <<"(">> \o Join(indicators, OR) \o <<")">>

build_batch(devices, indicators, date) ==
  LET device_query == Join(devices, OR)
      indicator_query == Join(indicators, OR)
      batch_term == <<"(">> \o device_query \o <<")">> \o AND
                    \o <<"(">> \o indicator_query \o <<")">>
  IN IF date # <<>> THEN batch_term \o AND \o date ELSE batch_term

\* a slip of the early return: the query handed back without its parentheses
EarlyReturnStripped(t) == <<Strip(t, Parens)>>

\* split_terms, lines 52-54: the early return of a query without " AND "
EarlyReturn(t) == <<t>>

\* split_terms, lines 56-61: the three parts of the query
DevicePart(parts) == Strip(parts[1], Parens)

IndicatorPart(parts) == Strip(parts[2], Parens)

DatePart(parts) == IF Len(parts) > 2 THEN parts[3] ELSE <<>>

ApiKeyParam == <<"&", "a", "p", "i", "_", "k", "e", "y", "=">>

\* split_terms, line 67
ApiKeyLength(key) == IF key # <<>> THEN Len(ApiKeyParam \o key) ELSE 0

\* split_terms, lines 63-66: the locals of the walk before its first index
WalkInit ==
  [i |-> 0, added |-> FALSE, current_devices |-> <<>>, current_indicators |-> <<>>,
   current_length |-> 0, batches |-> <<>>]

\* a slip of the comparison: a term that fills the budget exactly is accepted
FitsInclusive(current_length, length, budget) == current_length + length <= budget

\* split_terms, line 74 and line 82: the term fits the running batch
Fits(current_length, length, budget) == current_length + length < budget

\* a slip of the append: the accepted device term is put in front
TryDevicePrepend(w, dterms, budget) ==
  IF w.i < Len(dterms)
  THEN LET d_term == Strip(dterms[w.i + 1], ParensSpace)
           d_length == QuoteLen(d_term, DefaultSafe) + TermOverhead
       IN IF Fits(w.current_length, d_length, budget)
          THEN [w EXCEPT !.current_devices = <<d_term>> \o @,
                         !.current_length = @ + d_length,
                         !.added = TRUE]
          ELSE [w EXCEPT !.added = FALSE]
  ELSE [w EXCEPT !.added = FALSE]

\* split_terms, lines 70-77: the device side of index w.i
TryDevice(w, dterms, budget) ==
  IF w.i < Len(dterms)
  THEN LET d_term == Strip(dterms[w.i + 1], ParensSpace)
           d_length == QuoteLen(d_term, DefaultSafe) + TermOverhead
       IN IF Fits(w.current_length, d_length, budget)
          THEN [w EXCEPT !.current_devices = Append(@, d_term),
                         !.current_length = @ + d_length,
                         !.added = TRUE]
          ELSE [w EXCEPT !.added = FALSE]
  ELSE [w EXCEPT !.added = FALSE]

\* split_terms, lines 79-85: the indicator side of index w.i
TryIndicator(w, iterms, budget) ==
  IF w.i < Len(iterms)
  THEN LET i_term == Strip(iterms[w.i + 1], ParensSpace)
           i_length == QuoteLen(i_term, DefaultSafe) + TermOverhead
       IN IF Fits(w.current_length, i_length, budget)
          THEN [w EXCEPT !.current_indicators = Append(@, i_term),
                         !.current_length = @ + i_length,
                         !.added = TRUE]
          ELSE w
  ELSE w

\* split_terms, line 87: the walk closes the running batch at this index
Closing(w, n) == ~w.added \/ (w.i = n - 1 /\ w.current_devices # <<>>)

\* split_terms, line 88: the running batch may be emitted
BothSides(w) == w.current_devices # <<>> /\ w.current_indicators # <<>>

\* split_terms, lines 87-93, and the step of the loop to the next index
CloseBatch(w, n, date) ==
  IF Closing(w, n) /\ BothSides(w)
  THEN [w EXCEPT !.batches = Append(@, build_batch(w.current_devices, w.current_indicators, date)),
                 !.current_devices = <<>>,
                 !.current_indicators = <<>>,
                 !.current_length = 0,
                 !.i = @ + 1]
  ELSE [w EXCEPT !.i = @ + 1]

\* split_terms, lines 69-93: the loop from the locals w on
RECURSIVE Walk(_, _, _, _, _)
Walk(w, dterms, iterms, date, budget) ==
  LET n == Max(Len(dterms), Len(iterms))
  IN IF w.i >= n THEN w.batches
     ELSE Walk(CloseBatch(TryIndicator(TryDevice(w, dterms, budget), iterms, budget), n, date),
               dterms, iterms, date, budget)

\* split_terms as a function: the list of batches of a query
split_terms(t, budget) ==
  LET parts == Split(t, AND)
  IN IF Len(parts) < 2 THEN EarlyReturn(t)
     ELSE Walk(WalkInit, Split(DevicePart(parts), OR), Split(IndicatorPart(parts), OR),
               DatePart(parts), budget)

(***************************************************************************)
(* search.py: SearchManager._format_article                                *)
(***************************************************************************)
\* Python's None
None == "None"

PMC == <<"P", "M", "C">>

\* line 35: the entry is a pmid cross-reference with a value other than "0"
IsPmid(article_id) == article_id.idtype = "pmid" /\ article_id.value # "0"

\* lines 33-36: the loop over articleids from the local pmid on; the loop has
\* no break, every matching entry assigns pmid
RECURSIVE ScanPmid(_, _)
ScanPmid(articleids, pmid) ==
  IF articleids = <<>> THEN pmid
  ELSE ScanPmid(Tail(articleids),
                IF IsPmid(Head(articleids)) THEN Head(articleids).value ELSE pmid)

\* line 37
FormatPmcid(uid) == IF ~StartsWith(uid, PMC) THEN PMC \o uid ELSE uid

\* lines 30-38; a record without the articleids key has articleids = <<>>
format_article(data) ==
  [pmcid |-> FormatPmcid(data.uid), pmid |-> ScanPmid(data.articleids, None)]

\* the state of _format_article when it is not running
FormatIdle ==
  /\ f_pc = "idle"
  /\ article_data = [uid |-> <<>>, articleids |-> <<>>]
  /\ f_k = 0
  /\ f_pmid = None
  /\ f_result = [pmcid |-> <<>>, pmid |-> None]

\* the state of search_pubmed_pmc when it is not running
PmcIdle ==
  /\ p_pc = "idle"
  /\ query = <<>>
  /\ start_year = 0
  /\ end_year = 0
  /\ pmc_results = <<>>
  /\ p_k = 0
  /\ p_ret = <<>>

\* the state of create_query when it is not running
ComposeIdle ==
  /\ c_pc = "idle"
  /\ c_devices = <<>>
  /\ c_indicators = <<>>
  /\ c_device_query = <<>>
  /\ c_indicator_query = <<>>
  /\ c_result = <<>>

(***************************************************************************)
(* api_client.py: EntrezClient                                             *)
(***************************************************************************)
\* stop_after_attempt(5): the attempts tenacity gives one _make_request call
StopAfterAttempt == 5

\* retmax of search and of fetch_summary
RetMaxDefault == 1000

\* max_url_length of EntrezClient
DefaultMaxUrlLength == 2000

BaseUrl ==
  <<"h", "t", "t", "p", "s", ":", "/", "/", "e", "u", "t", "i", "l", "s", ".", "n", "c",
    "b", "i", ".", "n", "l", "m", ".", "n", "i", "h", ".", "g", "o", "v", "/", "e", "n",
    "t", "r", "e", "z", "/", "e", "u", "t", "i", "l", "s", "/">>

\* wait_exponential(multiplier=1, min=4, max=10): the bounds of a backoff wait
WaitMin == 4

WaitMax == 10

\* the seconds tenacity sleeps after failed attempt number n
WaitExponential(n) == Max(WaitMin, Min(2 ^ (n - 1), WaitMax))

\* the decorator sets no retry argument: tenacity retries after any exception
Retried(exc) == exc \in {"RequestException", "ValueError"}

\* _make_request, lines 27-40, under its retry decorator. fails is the number
\* of consecutive attempts on which the session raises a RequestException.
\* tenacity retries each of them; after StopAfterAttempt attempts it stops and,
\* reraise not being set, raises its own RetryError (not a RequestException).
MakeRequest(fails) == IF fails < StopAfterAttempt THEN "ok" ELSE "RetryError"

\* len(urllib.parse.quote_plus(s, safe='%')), the quoting urlencode applies:
\* a space becomes "+"
QuotePlusLen(s) == QuoteLen(s, {"%", " "})

EsearchEndpoint ==
  <<"e", "s", "e", "a", "r", "c", "h", ".", "f", "c", "g", "i">>

\* search, lines 43-49: the parameters around the term, urlencoded; no API
\* key is configured
SearchParamsHead == <<"d", "b", "=", "p", "m", "c", "&", "t", "e", "r", "m", "=">>

SearchParamsTail ==
  <<"&", "u", "s", "e", "h", "i", "s", "t", "o", "r", "y", "=", "y", "&", "r", "e", "t",
    "m", "o", "d", "e", "=", "j", "s", "o", "n", "&", "r", "e", "t", "m", "a", "x", "=",
    "1", "0", "0", "0">>

\* _make_request, lines 29-31: the length of encoded_url for the esearch of t
SearchUrlLength(t) ==
  Len(BaseUrl) + Len(EsearchEndpoint) + 1 + Len(SearchParamsHead) + QuotePlusLen(t)
    + Len(SearchParamsTail)

\* what one _make_request call may end in, over every number of failing attempts
RequestOutcomes == {MakeRequest(fails) : fails \in 0..StopAfterAttempt}

\* search, line 55: response.json() of a body that is not JSON raises
\* requests' JSONDecodeError, a RequestException, outside the retry decorator
BadBody == "RequestException"

\* what client.search(db, t) may end in: a URL over the limit raises
\* ValueError on every attempt (lines 32-33), which ends in RetryError as well
SearchOutcomes(t, limit) ==
  IF SearchUrlLength(t) > limit THEN {"RetryError"} ELSE RequestOutcomes \cup {BadBody}

\* a slip of the window size: every window is a full page
PageSizeFull(page, total, start) == page

\* fetch_summary, line 67: the retmax parameter of the request at offset start
PageSize(page, total, start) == Min(page, total - start)

\* fetch_summary, lines 61-68: the records of the window that starts at
\* start, as the remote service returns them: at most the size asked for,
\* and no more than it holds
PageWindow(records, start, total, page) ==
  SubSeq(records, start + 1, Min(start + PageSize(page, total, start), Len(records)))

(***************************************************************************)
(* search.py: SearchManager                                                *)
(***************************************************************************)
\* a slip of the default of line 65: one retry more
MoreRetries == 1 + 1

\* retries of _process_batch
Retries == 1

\* a slip of the pool size: one thread more
ThreeWorkers == 2 + 1

\* max_workers of the ThreadPoolExecutor
MaxWorkers == 2

EsearchDb ==
  <<"e", "s", "e", "a", "r", "c", "h", ".", "f", "c", "g", "i", "?", "d", "b", "=">>

Db ==
  <<"p", "m", "c">>

UseHistoryTerm ==
  <<"&", "u", "s", "e", "h", "i", "s", "t", "o", "r", "y", "=", "y", "&", "r", "e", "t",
    "m", "o", "d", "e", "=", "j", "s", "o", "n", "&", "t", "e", "r", "m", "=">>

\* _check_url_length, lines 87-92: the length of the URL it renders
CheckUrlLength(t) ==
  Len(BaseUrl) + Len(EsearchDb) + Len(Db) + Len(UseHistoryTerm) + QuoteLen(t, {"%"})

\* a slip of the size check: the limit is taken 50 characters too high
FitsOneUrlLoose(t, limit) == CheckUrlLength(t) <= limit + 50

\* batch_search, line 107: the full query fits one URL
FitsOneUrl(t, limit) == CheckUrlLength(t) <= limit

\* the frame of _process_single_query or _process_batch on a thread
IdleFrame ==
  [pc |-> "idle", unit |-> 0, attempt |-> 0, total_results |-> 0, retstart |-> 0,
   all_results |-> <<>>]

\* lines 43 and 69: the frame at its call of client.search for unit u
SearchFrame(u, attempt) == [IdleFrame EXCEPT !.pc = "search", !.unit = u, !.attempt = attempt]

\* lines 47-50 and 73-76: the frame inside fetch_summary for a result set of
\* total records
SummaryFrame(p, total) ==
  [p EXCEPT !.pc = "summary", !.total_results = total, !.retstart = 0, !.all_results = <<>>]

\* lines 79-82
FormatAll(summary_data) == [k \in 1..Len(summary_data) |-> format_article(summary_data[k])]

\* a slip of the merge: nothing is added once the list has a result
MergeStepFirstOnly(acc, result) ==
  IF acc.results = <<>>
  THEN [results |-> <<result>>, seen |-> {result.pmcid}]
  ELSE acc

\* a slip of the merge: the seen-set is not consulted
MergeStepNoCheck(acc, result) ==
  [results |-> Append(acc.results, result), seen |-> acc.seen \cup {result.pmcid}]

\* lines 127-129 (and 135-137): one result merged into results and seen_pmcids
MergeStep(acc, result) ==
  IF result.pmcid \notin acc.seen
  THEN [results |-> Append(acc.results, result), seen |-> acc.seen \cup {result.pmcid}]
  ELSE acc

\* lines 126-129: the results of one batch merged in their order
RECURSIVE Merge(_, _)
Merge(acc, batch_results) ==
  IF batch_results = <<>> THEN acc
  ELSE Merge(MergeStep(acc, Head(batch_results)), Tail(batch_results))

\* lines 56-59: one record of the single query
SingleStep(acc, data) ==
  LET article == format_article(data)
  IN IF article.pmcid \notin acc.seen
     THEN [results |-> Append(acc.results, article), seen |-> acc.seen \cup {article.pmcid}]
     ELSE acc

\* lines 53-60: the results of the single query
RECURSIVE SingleResults(_, _)
SingleResults(acc, summary_data) ==
  IF summary_data = <<>> THEN acc.results
  ELSE SingleResults(SingleStep(acc, Head(summary_data)), Tail(summary_data))

\* a slip of the test of line 111: an empty list of batches is dispatched
HasBatchesAlways(b) == TRUE

\* batch_search, line 111: split_terms gave at least one batch
HasBatches(b) == b # <<>>

\* batch_search, line 112: the record written when it gave none
NoValidBatches == "No valid batches created"

\* batch_search, line 130: the exceptions the except clause catches. The
\* exceptions that reach it are tenacity's RetryError out of future.result()
\* and the executor's RuntimeError out of submit
IsRequestException(exc) == exc = "RequestException"

\* a future of the pool
PendingFuture == [state |-> "pending", result |-> <<>>, exception |-> "none"]

FetchIdle ==
  /\ fs_pc = "idle"
  /\ total_results = 0
  /\ retmax = RetMaxDefault
  /\ retstart = 0
  /\ all_results = <<>>
  /\ fs_windows = <<>>
  /\ fs_result = <<>>

\* the locals and threads of batch_search when it is not running
SearchLocalsIdle ==
  /\ m_pc = "idle"
  /\ batches = <<>>
  /\ next_submit = 1
  /\ queue = <<>>
  /\ futures = <<>>
  /\ proc = [t \in 0..MaxWorkers |-> IdleFrame]
  /\ response = <<>>
  /\ results = <<>>
  /\ seen_pmcids = {}
  /\ yielded = {}
  /\ outcome = "none"
  /\ ret = <<>>
  /\ raised = "none"
  /\ error_log = <<>>
  /\ merge_log = <<>>
  /\ exhausted = {}
  /\ taken = <<>>

\* the state of _make_request and of fetch_summary when they are not running
RequestIdle ==
  /\ r_pc = "idle"
  /\ attempt_number = 0
  /\ r_waits = <<>>
  /\ network_calls = 0
  /\ r_raised = "none"
  /\ r_outcome = "none"
  /\ FetchIdle

\* the state of batch_search when it is not running
SearchIdle ==
  /\ max_url_length = DefaultMaxUrlLength
  /\ SearchLocalsIdle

(***************************************************************************)
(* split_terms step by step: one action per statement group of the loop.   *)
(***************************************************************************)
\* the terms the queries are composed of
RawTerms == {<<"a">>, <<"b", " ", "c">>}

\* the date clause of the tests, 2023[PDAT]
DateClause == <<"2", "0", "2", "3", "[", "P", "D", "A", "T", "]">>

DateClauses == {<<>>, DateClause}

\* the budgets tried: none, one, two terms fit, and the default
BatchSizes == {5, 12, 30, DefaultBatchSize}

SeqsUpTo(S, n) == UNION {[1..k -> S] : k \in 0..n}

TermLists == SeqsUpTo(RawTerms, MaxTerms)

\* a composed query with its optional date clause
Composed(devices, indicators, date) ==
  IF date = <<>> THEN create_query(devices, indicators)
  ELSE create_query(devices, indicators) \o AND \o date

\* one parenthesized OR-group, the query of test_split_terms_invalid_query
PlainQuery(devices) == <<"(">> \o Join(Quoted(devices), OR) \o <<")">>

\* the API keys given to split_terms: None and a key
ApiKeys == {<<>>, <<"k", "e", "y">>}

\* no term is pending
NoneAccepted == [devices |-> <<>>, indicators |-> <<>>]

\* the state of split_terms when it is not running
SplitIdle ==
  /\ s_pc = "idle"
  /\ api_key = <<>>
  /\ api_key_length = 0
  /\ pending_at = NoneAccepted
  /\ emitted_at = <<>>
  /\ device_terms = <<>>
  /\ indicator_terms = <<>>
  /\ date_part = <<>>
  /\ walk = WalkInit
  /\ s_result = <<>>
  /\ in_kind = "none"
  /\ in_devices = <<>>
  /\ in_indicators = <<>>
  /\ emitted = <<>>

SplitInit ==
  /\ PmcIdle
  /\ ComposeIdle
  /\ s_pc = "entry"
  /\ in_kind \in {"composed", "plain"}
  /\ in_devices \in TermLists
  /\ in_indicators \in (IF in_kind = "composed" THEN TermLists ELSE {<<>>})
  /\ \E date \in (IF in_kind = "composed" THEN DateClauses ELSE {<<>>}) :
       term = (IF in_kind = "composed" THEN Composed(in_devices, in_indicators, date)
               ELSE PlainQuery(in_devices))
  /\ batch_size \in BatchSizes
  /\ api_key \in ApiKeys
  /\ api_key_length = 0
  /\ pending_at = NoneAccepted
  /\ emitted_at = <<>>
  /\ device_terms = <<>>
  /\ indicator_terms = <<>>
  /\ date_part = <<>>
  /\ walk = WalkInit
  /\ s_result = <<>>
  /\ emitted = <<>>
  /\ FormatIdle
  /\ SearchIdle
  /\ RequestIdle

\* the number of indices of the walk, line 69
NumIndices == Max(Len(device_terms), Len(indicator_terms))

\* lines 52-54
EntryNoSeparator ==
  /\ s_pc = "entry"
  /\ Len(Split(term, AND)) < 2
  /\ s_result' = EarlyReturn(term)
  /\ s_pc' = "done"
  /\ UNCHANGED <<term, batch_size, device_terms, indicator_terms, date_part, walk,
                 in_kind, in_devices, in_indicators, emitted>>
  /\ UNCHANGED <<api_key, api_key_length, pending_at, emitted_at>>
  /\ UNCHANGED notSplitVars

\* lines 52-67
EntryParse ==
  /\ s_pc = "entry"
  /\ LET parts == Split(term, AND)
     IN /\ Len(parts) >= 2
        /\ device_terms' = Split(DevicePart(parts), OR)
        /\ indicator_terms' = Split(IndicatorPart(parts), OR)
        /\ date_part' = DatePart(parts)
  /\ walk' = WalkInit
  /\ api_key_length' = ApiKeyLength(api_key)
  /\ UNCHANGED <<api_key, pending_at, emitted_at>>
  /\ s_pc' = "device"
  /\ UNCHANGED <<term, batch_size, s_result, in_kind, in_devices, in_indicators, emitted>>
  /\ UNCHANGED notSplitVars

\* lines 70-77
StepDevice ==
  /\ s_pc = "device"
  /\ walk' = TryDevice(walk, device_terms, batch_size)
  /\ pending_at' = IF Len(walk'.current_devices) > Len(walk.current_devices)
                   THEN [pending_at EXCEPT !.devices = Append(@, walk.i + 1)]
                   ELSE pending_at
  /\ UNCHANGED <<api_key, api_key_length, emitted_at>>
  /\ s_pc' = "indicator"
  /\ UNCHANGED <<term, batch_size, device_terms, indicator_terms, date_part, s_result,
                 in_kind, in_devices, in_indicators, emitted>>
  /\ UNCHANGED notSplitVars

\* lines 79-85
StepIndicator ==
  /\ s_pc = "indicator"
  /\ walk' = TryIndicator(walk, indicator_terms, batch_size)
  /\ pending_at' = IF Len(walk'.current_indicators) > Len(walk.current_indicators)
                   THEN [pending_at EXCEPT !.indicators = Append(@, walk.i + 1)]
                   ELSE pending_at
  /\ UNCHANGED <<api_key, api_key_length, emitted_at>>
  /\ s_pc' = "close"
  /\ UNCHANGED <<term, batch_size, device_terms, indicator_terms, date_part, s_result,
                 in_kind, in_devices, in_indicators, emitted>>
  /\ UNCHANGED notSplitVars

\* lines 87-93, then line 69 again
StepClose ==
  /\ s_pc = "close"
  /\ walk' = CloseBatch(walk, NumIndices, date_part)
  /\ emitted' = IF Len(walk'.batches) > Len(walk.batches)
                THEN Append(emitted, [devices |-> walk.current_devices,
                                      indicators |-> walk.current_indicators])
                ELSE emitted
  /\ emitted_at' = IF Len(walk'.batches) > Len(walk.batches)
                   THEN Append(emitted_at, pending_at)
                   ELSE emitted_at
  /\ pending_at' = IF Len(walk'.batches) > Len(walk.batches) THEN NoneAccepted ELSE pending_at
  /\ UNCHANGED <<api_key, api_key_length>>
  /\ s_pc' = IF walk'.i >= NumIndices THEN "return" ELSE "device"
  /\ UNCHANGED <<term, batch_size, device_terms, indicator_terms, date_part, s_result,
                 in_kind, in_devices, in_indicators>>
  /\ UNCHANGED notSplitVars

\* lines 95-96
Return ==
  /\ s_pc = "return"
  /\ s_result' = walk.batches
  /\ s_pc' = "done"
  /\ UNCHANGED <<term, batch_size, device_terms, indicator_terms, date_part, walk,
                 in_kind, in_devices, in_indicators, emitted>>
  /\ UNCHANGED <<api_key, api_key_length, pending_at, emitted_at>>
  /\ UNCHANGED notSplitVars

SplitNext ==
  \/ EntryNoSeparator
  \/ EntryParse
  \/ StepDevice
  \/ StepIndicator
  \/ StepClose
  \/ Return

SpecSplit == SplitInit /\ [][SplitNext]_vars

(***************************************************************************)
(* Properties of split_terms.                                              *)
(***************************************************************************)
RECURSIVE Flatten(_)
Flatten(lists) == IF lists = <<>> THEN <<>> ELSE Head(lists) \o Flatten(Tail(lists))

NonEmpty(x) == x # <<>>

\* the terms of group k (1: devices, 2: indicators) read back from a batch string
GroupTerms(batch, k) ==
  SelectSeq(Split(Strip(Split(batch, AND)[k], Parens), OR), NonEmpty)

\* the terms of group k of all returned batches, in emission order
ReturnedTerms(k) == Flatten([b \in 1..Len(s_result) |-> GroupTerms(s_result[b], k)])

\* the estimated encoded length of a list of terms
RECURSIVE EstimatedLength(_)
EstimatedLength(terms) ==
  IF terms = <<>> THEN 0
  ELSE QuoteLen(Head(terms), DefaultSafe) + TermOverhead + EstimatedLength(Tail(terms))

\* a group as it stands in a batch: an opening parenthesis, terms, a closing one
Wrapped(group) == Len(group) >= 2 /\ Head(group) = "(" /\ group[Len(group)] = ")"

\* C1: the batches returned for a composed query hold every device term and
\* every indicator term of the query exactly once, in the original order:
\* the device groups read in emission order give the device list, the
\* indicator groups the indicator list.
C1_Covering ==
  (s_pc = "done" /\ in_kind = "composed")
    => /\ ReturnedTerms(1) = Quoted(in_devices)
       /\ ReturnedTerms(2) = Quoted(in_indicators)

\* every term of the query fits the budget on its own
EachTermFits ==
  \A x \in RawTerms : QuoteLen(DQuote \o x \o DQuote, DefaultSafe) + TermOverhead < batch_size

\* C1 where no term is too long for the budget: the covering property is
\* violated there too, by the terms refused at an index where the running
\* batch is full
C1_CoveringWhenTermsFit == EachTermFits => C1_Covering

\* C4: the running length of the in-progress batch is the estimated length of
\* its terms and is below batch_size at every step of the walk, and so is the
\* estimated length of every emitted batch.
C4_UnderBudget ==
  /\ walk.current_length < batch_size
  /\ walk.current_length
       = EstimatedLength(walk.current_devices) + EstimatedLength(walk.current_indicators)
  /\ \A k \in 1..Len(emitted) :
       EstimatedLength(emitted[k].devices) + EstimatedLength(emitted[k].indicators)
         < batch_size

\* C4 witness: under a budget that two terms fill, the walk refused a term,
\* closed a batch and is filling the next one
C4_Witness ==
  /\ batch_size = 30
  /\ Len(emitted) >= 1
  /\ walk.current_length > 0
  /\ walk.i >= 2

\* C5: every batch returned for a query with two groups has a device group
\* and an indicator group, each in parentheses and each with at least one
\* term, joined by " AND ".
C5_BothGroups ==
  (s_pc = "done" /\ in_kind = "composed")
    => \A b \in 1..Len(s_result) :
         LET parts == Split(s_result[b], AND)
         IN /\ Len(parts) >= 2
            /\ Wrapped(parts[1])
            /\ Wrapped(parts[2])
            /\ GroupTerms(s_result[b], 1) # <<>>
            /\ GroupTerms(s_result[b], 2) # <<>>

\* C10: a query without the " AND " separator never enters the walk and is
\* returned unchanged as the only element, whatever the budget.
C10_NoSeparator ==
  Find(term, AND) = 0
    => /\ s_pc \in {"entry", "done"}
       /\ s_pc = "done" => s_result = <<term>>

\* C10 witness: split_terms returned for a parenthesized group of two or
\* more terms that has no " AND "
C10_Witness ==
  /\ s_pc = "done"
  /\ in_kind = "plain"
  /\ Len(in_devices) >= 2
  /\ Find(term, AND) = 0
  /\ Len(s_result) = 1

\* the estimated length of the terms the query was composed of
InputEstimate ==
  EstimatedLength(Quoted(in_devices)) + EstimatedLength(Quoted(in_indicators))

\* the estimated length of a group as split_terms reads it back: a group
\* without terms, "()", is read as one empty term
GroupEstimate(terms) ==
  IF terms = <<>> THEN TermOverhead ELSE EstimatedLength(Quoted(terms))

C15_ReservedKeyLength ==
  api_key # <<>>
    => \A k \in 1..Len(emitted) :
         EstimatedLength(emitted[k].devices) + EstimatedLength(emitted[k].indicators)
           < batch_size - ApiKeyLength(api_key)

\* C16: after an index at which neither term was accepted the running batch
\* is closed and the running length is zero before the next index is
\* examined, and after the final index no batch is left pending.
C16_CloseAndReset ==
  /\ (s_pc \in {"device", "return"} /\ walk.i > 0 /\ ~walk.added)
       => /\ walk.current_length = 0
          /\ walk.current_devices = <<>>
          /\ walk.current_indicators = <<>>
  /\ s_pc \in {"return", "done"} => walk.current_length = 0

StrictlyIncreasing(seq) == \A j, k \in 1..Len(seq) : j < k => seq[j] < seq[k]

\* the terms of the list that stand at the given indices
TermsAt(terms, at) == [j \in 1..Len(at) |-> Strip(terms[at[j]], ParensSpace)]

\* C17: batches are emitted in original term order: the device terms read
\* across the pending and emitted batches are the terms of the original
\* list at strictly increasing positions, likewise the indicator terms, and
\* the returned strings hold these terms in this order.
C17_OriginalOrder ==
  LET all_at == Append(emitted_at, pending_at)
      d_at == Flatten([k \in 1..Len(all_at) |-> all_at[k].devices])
      i_at == Flatten([k \in 1..Len(all_at) |-> all_at[k].indicators])
  IN /\ StrictlyIncreasing(d_at)
     /\ StrictlyIncreasing(i_at)
     /\ Len(emitted_at) = Len(emitted)
     /\ \A k \in 1..Len(emitted) :
          /\ emitted[k].devices = TermsAt(device_terms, emitted_at[k].devices)
          /\ emitted[k].indicators = TermsAt(indicator_terms, emitted_at[k].indicators)
     /\ walk.current_devices = TermsAt(device_terms, pending_at.devices)
     /\ walk.current_indicators = TermsAt(indicator_terms, pending_at.indicators)
     /\ (s_pc \notin {"idle", "entry"} /\ in_kind = "composed" /\ in_devices # <<>>)
          => device_terms = Quoted(in_devices)
     /\ (s_pc \notin {"idle", "entry"} /\ in_kind = "composed" /\ in_indicators # <<>>)
          => indicator_terms = Quoted(in_indicators)
     /\ (s_pc = "done" /\ in_kind = "composed")
          => /\ Len(s_result) = Len(emitted)
             /\ ReturnedTerms(1)
                  = SelectSeq(Flatten([k \in 1..Len(emitted) |-> emitted[k].devices]), NonEmpty)
             /\ ReturnedTerms(2)
                  = SelectSeq(Flatten([k \in 1..Len(emitted) |-> emitted[k].indicators]), NonEmpty)

\* C17 witness: a query with different device terms came back as two batches
C17_Witness ==
  /\ s_pc = "done"
  /\ in_kind = "composed"
  /\ Len(s_result) = 2
  /\ \E j, k \in 1..Len(in_devices) : in_devices[j] # in_devices[k]

\* C18: a composed query whose terms' total estimated length is not below
\* the budget yields more than one batch.
C18_MoreThanOneBatch ==
  (s_pc = "done" /\ in_kind = "composed" /\ InputEstimate >= batch_size)
    => Len(s_result) > 1

(***************************************************************************)
(* _format_article step by step: one action per articleids entry.          *)
(***************************************************************************)
\* the uids the remote service may give
Uids == {<<"1">>, <<"P", "M", "C", "1">>, <<"P", "M", "2">>}

\* the cross-reference entries of a raw record
ArticleIds ==
  {[idtype |-> "pmid", value |-> "5"], [idtype |-> "pmid", value |-> "6"],
   [idtype |-> "pmid", value |-> "0"], [idtype |-> "doi", value |-> "7"]}

FormatInit ==
  /\ PmcIdle
  /\ ComposeIdle
  /\ f_pc = "scan"
  /\ \E uid \in Uids, articleids \in SeqsUpTo(ArticleIds, MaxIds) :
       article_data = [uid |-> uid, articleids |-> articleids]
  /\ f_k = 0
  /\ f_pmid = None
  /\ f_result = [pmcid |-> <<>>, pmid |-> None]
  /\ SplitIdle
  /\ term = <<>>
  /\ batch_size = DefaultBatchSize
  /\ SearchIdle
  /\ RequestIdle

\* lines 34-36: one entry of articleids
ScanEntry ==
  /\ f_pc = "scan"
  /\ f_k < Len(article_data.articleids)
  /\ f_pmid' = ScanPmid(<<article_data.articleids[f_k + 1]>>, f_pmid)
  /\ f_k' = f_k + 1
  /\ UNCHANGED <<f_pc, article_data, f_result>>
  /\ UNCHANGED notFormatVars

\* lines 37-38, after the loop
FormatReturn ==
  /\ f_pc = "scan"
  /\ f_k = Len(article_data.articleids)
  /\ f_result' = [pmcid |-> FormatPmcid(article_data.uid), pmid |-> f_pmid]
  /\ f_pc' = "done"
  /\ UNCHANGED <<article_data, f_k, f_pmid>>
  /\ UNCHANGED notFormatVars

FormatNext ==
  \/ ScanEntry
  \/ FormatReturn

SpecFormat == FormatInit /\ [][FormatNext]_vars

\* the first entry of articleids that is a pmid cross-reference with a value
\* other than "0", or None
FirstPmid(articleids) ==
  LET at == {k \in 1..Len(articleids) : IsPmid(articleids[k])}
  IN IF at = {} THEN None
     ELSE articleids[CHOOSE k \in at : \A j \in at : k <= j].value

\* C9: _format_article returns the uid with PMC in front unless it starts
\* with PMC, and as pmid the value of the first pmid entry of articleids whose
\* value is not "0", None when there is none.
C9_FormatArticle ==
  f_pc = "done"
    => /\ f_result.pmcid = (IF StartsWith(article_data.uid, PMC) THEN article_data.uid
                            ELSE PMC \o article_data.uid)
       /\ f_result.pmid = FirstPmid(article_data.articleids)

(***************************************************************************)
(* batch_search step by step: the orchestrating thread, the pool threads   *)
(* and the remote service.                                                 *)
(***************************************************************************)
\* k copies of a term, as in the tests' ["Hemoblast"] * 20
Repeat(x, k) == [j \in 1..k |-> x]

\* the queries given to batch_search
SearchQueries ==
  {create_query(Repeat(<<"a">>, k), Repeat(<<"a">>, k)) : k \in 0..MaxRepeat}

\* the budgets of the SearchManager: no batch can be formed, two terms fit,
\* and the default
SearchBatchSizes == {12, 30, DefaultBatchSize}

\* the URL limits of the client: one between the two renderings of the URL
\* of a one-pair query, a short one that makes queries oversized, the default
UrlLimits == {135, 150, DefaultMaxUrlLength}

\* raw records of the remote service: two uids of the same article with
\* different pmids, and a record without cross-reference
RecordA == [uid |-> <<"1">>, articleids |-> <<[idtype |-> "pmid", value |-> "5"]>>]

RecordB == [uid |-> <<"P", "M", "C", "1">>, articleids |-> <<[idtype |-> "pmid", value |-> "6"]>>]

RecordC == [uid |-> <<"2">>, articleids |-> <<>>]

\* what the remote service may hold for one query
Responses == {<<>>, <<RecordA, RecordB>>, <<RecordB, RecordC>>}

\* the query of a unit of work: 0 is the full query, b > 0 is batch b
UnitQuery(u) == IF u = 0 THEN term ELSE batches[u]

\* a unit of work the remote service has not answered yet may get any of the
\* responses; an answered unit keeps its records
HeldChoices(u) == IF u \in DOMAIN response THEN {response[u]} ELSE Responses

Pool == 1..MaxWorkers

SearchInit ==
  /\ PmcIdle
  /\ ComposeIdle
  /\ m_pc = "check"
  /\ term \in SearchQueries
  /\ batch_size \in SearchBatchSizes
  /\ max_url_length \in UrlLimits
  /\ batches = <<>>
  /\ next_submit = 1
  /\ queue = <<>>
  /\ futures = <<>>
  /\ proc = [t \in 0..MaxWorkers |-> IdleFrame]
  /\ response = <<>>
  /\ results = <<>>
  /\ seen_pmcids = {}
  /\ yielded = {}
  /\ outcome = "none"
  /\ ret = <<>>
  /\ raised = "none"
  /\ error_log = <<>>
  /\ merge_log = <<>>
  /\ exhausted = {}
  /\ taken = <<>>
  /\ SplitIdle
  /\ FormatIdle
  /\ RequestIdle

\* a record of the merge history
Logged(batch_results, b) ==
  [k \in 1..Len(batch_results) |->
     [pmcid |-> batch_results[k].pmcid, pmid |-> batch_results[k].pmid, batch |-> b]]

\* lines 106-108: the query fits one URL
StartSingle ==
  /\ m_pc = "check"
  /\ FitsOneUrl(term, max_url_length)
  /\ m_pc' = "single"
  /\ proc' = [proc EXCEPT ![0] = SearchFrame(0, 0)]
  /\ UNCHANGED <<term, batch_size, max_url_length, batches, next_submit, queue, futures,
                 response, results, seen_pmcids, yielded, outcome, ret, merge_log,
                 exhausted, taken>>
  /\ UNCHANGED <<raised, error_log>>
  /\ UNCHANGED notSearchVars

\* lines 106-113: the query is oversized and no batch can be formed
NoBatches ==
  /\ m_pc = "check"
  /\ ~FitsOneUrl(term, max_url_length)
  /\ ~HasBatches(split_terms(term, batch_size))
  /\ batches' = <<>>
  /\ error_log' = Append(error_log, NoValidBatches)
  /\ UNCHANGED raised
  /\ ret' = <<>>
  /\ outcome' = "returned"
  /\ m_pc' = "done"
  /\ UNCHANGED <<term, batch_size, max_url_length, next_submit, queue, futures, proc,
                 response, results, seen_pmcids, yielded, merge_log, exhausted, taken>>
  /\ UNCHANGED notSearchVars

\* lines 106-118: the query is oversized and is split
StartBatched ==
  /\ m_pc = "check"
  /\ ~FitsOneUrl(term, max_url_length)
  /\ HasBatches(split_terms(term, batch_size))
  /\ batches' = split_terms(term, batch_size)
  /\ m_pc' = "submit"
  /\ UNCHANGED <<term, batch_size, max_url_length, next_submit, queue, futures, proc,
                 response, results, seen_pmcids, yielded, outcome, ret, merge_log,
                 exhausted, taken>>
  /\ UNCHANGED <<raised, error_log>>
  /\ UNCHANGED notSearchVars

\* lines 119-122: executor.submit of the next batch
Submit ==
  /\ m_pc = "submit"
  /\ futures' = Append(futures, PendingFuture)
  /\ taken' = Append(taken, {})
  /\ queue' = Append(queue, next_submit)
  /\ next_submit' = next_submit + 1
  /\ m_pc' = IF next_submit = Len(batches) THEN "collect" ELSE "submit"
  /\ UNCHANGED <<term, batch_size, max_url_length, batches, proc, response, results,
                 seen_pmcids, yielded, outcome, ret, merge_log, exhausted>>
  /\ UNCHANGED <<raised, error_log>>
  /\ UNCHANGED notSearchVars

\* a pool thread takes the oldest work item and enters _process_batch
Take(w) ==
  /\ proc[w].pc = "idle"
  /\ queue # <<>>
  /\ LET b == Head(queue)
     IN /\ proc' = [proc EXCEPT ![w] = SearchFrame(b, 0)]
        /\ futures' = [futures EXCEPT ![b].state = "running"]
        /\ taken' = [taken EXCEPT ![b] = @ \cup {w}]
  /\ queue' = Tail(queue)
  /\ UNCHANGED <<term, batch_size, max_url_length, batches, next_submit, m_pc, response,
                 results, seen_pmcids, yielded, outcome, ret, merge_log, exhausted>>
  /\ UNCHANGED <<raised, error_log>>
  /\ UNCHANGED notSearchVars

\* _process_batch, lines 72, 78 and 85: the next attempt of the loop, or the
\* empty list when the attempts are used up
ContinueBatch(w) ==
  LET p == proc[w]
  IN IF p.attempt + 1 < Retries + 1
     THEN /\ proc' = [proc EXCEPT ![w] = SearchFrame(p.unit, p.attempt + 1)]
          /\ UNCHANGED futures
     ELSE /\ proc' = [proc EXCEPT ![w] = IdleFrame]
          /\ futures' = [futures EXCEPT ![p.unit] =
                           [state |-> "finished", result |-> <<>>, exception |-> "none"]]

\* _process_batch, lines 69-76: client.search of the batch
WorkerSearch(w) ==
  /\ proc[w].pc = "search"
  /\ \E request \in SearchOutcomes(UnitQuery(proc[w].unit), max_url_length),
        held \in HeldChoices(proc[w].unit) :
       LET p == proc[w]
       IN IF request = "RetryError"
          THEN \* not a RequestException: line 83 does not catch it
               /\ proc' = [proc EXCEPT ![w] = IdleFrame]
               /\ futures' = [futures EXCEPT ![p.unit] =
                                [state |-> "finished", result |-> <<>>,
                                 exception |-> "RetryError"]]
               /\ exhausted' = exhausted \cup {p.unit}
               /\ UNCHANGED response
          ELSE IF IsRequestException(request)
          THEN \* lines 83-84: caught and logged, the loop goes on
               /\ ContinueBatch(w)
               /\ UNCHANGED <<response, exhausted>>
          ELSE /\ proc' = [proc EXCEPT ![w] = SummaryFrame(p, Len(held))]
               /\ response' = (p.unit :> held) @@ response
               /\ UNCHANGED <<futures, exhausted>>
  /\ UNCHANGED <<term, batch_size, max_url_length, batches, next_submit, queue, m_pc,
                 results, seen_pmcids, yielded, outcome, ret, merge_log, taken>>
  /\ UNCHANGED <<raised, error_log>>
  /\ UNCHANGED notSearchVars

\* fetch_summary, lines 61-86, called from _process_batch: one page. A page
\* whose request fails is skipped (line 84 catches every Exception).
WorkerPage(w) ==
  /\ proc[w].pc = "summary"
  /\ proc[w].retstart < proc[w].total_results
  /\ \E request \in RequestOutcomes :
       LET p == proc[w]
           page == PageWindow(response[p.unit], p.retstart, p.total_results, RetMaxDefault)
       IN proc' = [proc EXCEPT ![w].all_results =
                                 IF request = "ok" THEN @ \o page ELSE @,
                               ![w].retstart = @ + RetMaxDefault]
  /\ UNCHANGED <<term, batch_size, max_url_length, batches, next_submit, queue, futures,
                 m_pc, response, results, seen_pmcids, yielded, outcome, ret, merge_log,
                 exhausted, taken>>
  /\ UNCHANGED <<raised, error_log>>
  /\ UNCHANGED notSearchVars

\* _process_batch, lines 76-82: fetch_summary has returned
WorkerFetched(w) ==
  /\ proc[w].pc = "summary"
  /\ proc[w].retstart >= proc[w].total_results
  /\ LET p == proc[w]
     IN IF p.all_results = <<>>
        THEN ContinueBatch(w)
        ELSE /\ proc' = [proc EXCEPT ![w] = IdleFrame]
             /\ futures' = [futures EXCEPT ![p.unit] =
                              [state |-> "finished", result |-> FormatAll(p.all_results),
                               exception |-> "none"]]
  /\ UNCHANGED <<term, batch_size, max_url_length, batches, next_submit, queue, m_pc,
                 response, results, seen_pmcids, yielded, outcome, ret, merge_log,
                 exhausted, taken>>
  /\ UNCHANGED <<raised, error_log>>
  /\ UNCHANGED notSearchVars

\* _process_single_query, lines 43-50: client.search of the full query
SingleSearch ==
  /\ m_pc = "single"
  /\ proc[0].pc = "search"
  /\ \E request \in SearchOutcomes(UnitQuery(0), max_url_length), held \in HeldChoices(0) :
       IF request = "RetryError"
       THEN \* not a RequestException: line 61 does not catch it, nor does batch_search
            /\ proc' = [proc EXCEPT ![0] = IdleFrame]
            /\ exhausted' = exhausted \cup {0}
            /\ outcome' = "RetryError"
            /\ m_pc' = "done"
            /\ UNCHANGED <<response, ret>>
       ELSE IF IsRequestException(request)
       THEN \* lines 61-63: caught and logged, [] is returned
            /\ proc' = [proc EXCEPT ![0] = IdleFrame]
            /\ ret' = <<>>
            /\ outcome' = "returned"
            /\ m_pc' = "done"
            /\ UNCHANGED <<response, exhausted>>
       ELSE /\ proc' = [proc EXCEPT ![0] = SummaryFrame(proc[0], Len(held))]
            /\ response' = (0 :> held) @@ response
            /\ UNCHANGED <<exhausted, outcome, m_pc, ret>>
  /\ UNCHANGED <<term, batch_size, max_url_length, batches, next_submit, queue, futures,
                 results, seen_pmcids, yielded, merge_log, taken>>
  /\ UNCHANGED <<raised, error_log>>
  /\ UNCHANGED notSearchVars

\* fetch_summary, lines 61-86, called from _process_single_query: one page
SinglePage ==
  /\ m_pc = "single"
  /\ proc[0].pc = "summary"
  /\ proc[0].retstart < proc[0].total_results
  /\ \E request \in RequestOutcomes :
       LET p == proc[0]
           page == PageWindow(response[0], p.retstart, p.total_results, RetMaxDefault)
       IN proc' = [proc EXCEPT ![0].all_results =
                                 IF request = "ok" THEN @ \o page ELSE @,
                               ![0].retstart = @ + RetMaxDefault]
  /\ UNCHANGED <<term, batch_size, max_url_length, batches, next_submit, queue, futures,
                 m_pc, response, results, seen_pmcids, yielded, outcome, ret, merge_log,
                 exhausted, taken>>
  /\ UNCHANGED <<raised, error_log>>
  /\ UNCHANGED notSearchVars

\* _process_single_query, lines 50-60, and the return of line 108
SingleFetched ==
  /\ m_pc = "single"
  /\ proc[0].pc = "summary"
  /\ proc[0].retstart >= proc[0].total_results
  /\ LET summary_data == proc[0].all_results
     IN /\ ret' = SingleResults([results |-> <<>>, seen |-> {}], summary_data)
        /\ merge_log' = Logged(FormatAll(summary_data), 0)
  /\ proc' = [proc EXCEPT ![0] = IdleFrame]
  /\ outcome' = "returned"
  /\ m_pc' = "done"
  /\ UNCHANGED <<term, batch_size, max_url_length, batches, next_submit, queue, futures,
                 response, results, seen_pmcids, yielded, exhausted, taken>>
  /\ UNCHANGED <<raised, error_log>>
  /\ UNCHANGED notSearchVars

\* lines 123-129: as_completed hands out a finished future, future.result()
\* returns its list or raises its exception, the list is merged. After the
\* last future the with block ends and lines 139-140 return.
CollectFuture(b) ==
  /\ m_pc = "collect"
  /\ b \notin yielded
  /\ futures[b].state = "finished"
  /\ yielded' = yielded \cup {b}
  /\ IF futures[b].exception # "none"
     THEN \* future.result() raises it, the with block is being left
          /\ raised' = futures[b].exception
          /\ m_pc' = "shutdown"
          /\ UNCHANGED <<results, seen_pmcids, merge_log, outcome, ret>>
     ELSE LET acc == Merge([results |-> results, seen |-> seen_pmcids], futures[b].result)
          IN /\ results' = acc.results
             /\ UNCHANGED raised
             /\ seen_pmcids' = acc.seen
             /\ merge_log' = merge_log \o Logged(futures[b].result, b)
             /\ IF yielded' = 1..Len(futures)
                THEN /\ ret' = acc.results
                     /\ outcome' = "returned"
                     /\ m_pc' = "done"
                ELSE UNCHANGED <<ret, outcome, m_pc>>
  /\ UNCHANGED <<term, batch_size, max_url_length, batches, next_submit, queue, futures,
                 proc, response, exhausted, taken, error_log>>
  /\ UNCHANGED notSearchVars

Collect == \E b \in 1..Len(futures) : CollectFuture(b)

\* lines 118 and 130: the with block is left by an exception; the executor's
\* shutdown waits for every submitted batch; the except clause catches a
\* RequestException only, any other exception leaves batch_search
Shutdown ==
  /\ m_pc = "shutdown"
  /\ \A b \in 1..Len(futures) : futures[b].state = "finished"
  /\ ~IsRequestException(raised)
  /\ outcome' = raised
  /\ m_pc' = "done"
  /\ UNCHANGED <<term, batch_size, max_url_length, batches, next_submit, queue, futures,
                 proc, response, results, seen_pmcids, yielded, ret, merge_log, exhausted,
                 taken, raised, error_log>>
  /\ UNCHANGED notSearchVars

SearchNext ==
  \/ StartSingle
  \/ NoBatches
  \/ StartBatched
  \/ Submit
  \/ \E w \in Pool : Take(w)
  \/ \E w \in Pool : WorkerSearch(w)
  \/ \E w \in Pool : WorkerPage(w)
  \/ \E w \in Pool : WorkerFetched(w)
  \/ SingleSearch
  \/ SinglePage
  \/ SingleFetched
  \/ Collect
  \/ Shutdown

Spec == SearchInit /\ [][SearchNext]_vars

(***************************************************************************)
(* batch_search with a dispatch layer that can fail: executor.submit raises *)
(* RuntimeError when the pool cannot schedule or start a thread.           *)
(***************************************************************************)
\* lines 119-122: executor.submit raises inside the dictionary comprehension;
\* the batches submitted before stay with the pool
SubmitRaises ==
  /\ m_pc = "submit"
  /\ raised' = "RuntimeError"
  /\ m_pc' = "shutdown"
  /\ UNCHANGED <<term, batch_size, max_url_length, batches, next_submit, queue, futures,
                 proc, response, results, seen_pmcids, yielded, outcome, ret, merge_log,
                 exhausted, taken, error_log>>
  /\ UNCHANGED notSearchVars

DispatchNext ==
  \/ SearchNext
  \/ SubmitRaises

SpecDispatch == SearchInit /\ [][DispatchNext]_vars

(***************************************************************************)
(* _make_request step by step under tenacity: one esearch request for term. *)
(***************************************************************************)
RequestInit ==
  /\ PmcIdle
  /\ ComposeIdle
  /\ r_pc = "attempt"
  /\ attempt_number = 0
  /\ r_waits = <<>>
  /\ network_calls = 0
  /\ r_raised = "none"
  /\ r_outcome = "none"
  /\ term \in SearchQueries
  /\ batch_size = DefaultBatchSize
  /\ max_url_length \in UrlLimits
  /\ SplitIdle
  /\ FormatIdle
  /\ SearchLocalsIdle
  /\ FetchIdle

\* an attempt has raised exc: tenacity retries it unless the attempts are used
\* up, in which case it raises RetryError
AfterRaise(exc, n) ==
  IF Retried(exc) /\ n < StopAfterAttempt
  THEN r_pc' = "wait" /\ r_outcome' = r_outcome
  ELSE r_pc' = "done" /\ r_outcome' = (IF Retried(exc) THEN "RetryError" ELSE exc)

\* lines 29-33: the URL is over the limit, the attempt raises ValueError
\* before the session is used
AttemptRejected ==
  /\ r_pc = "attempt"
  /\ SearchUrlLength(term) > max_url_length
  /\ attempt_number' = attempt_number + 1
  /\ r_raised' = "ValueError"
  /\ AfterRaise("ValueError", attempt_number + 1)
  /\ UNCHANGED <<r_waits, network_calls>>
  /\ UNCHANGED notRequestVars

\* lines 29-40: the URL is within the limit, the session sends the request,
\* which succeeds or raises a RequestException (raise_for_status included)
AttemptSent ==
  /\ r_pc = "attempt"
  /\ SearchUrlLength(term) <= max_url_length
  /\ attempt_number' = attempt_number + 1
  /\ network_calls' = network_calls + 1
  /\ \E answer \in {"response", "RequestException"} :
       IF answer = "response"
       THEN r_raised' = "none" /\ r_pc' = "done" /\ r_outcome' = "response"
       ELSE r_raised' = answer /\ AfterRaise(answer, attempt_number + 1)
  /\ UNCHANGED r_waits
  /\ UNCHANGED notRequestVars

\* tenacity sleeps before the next attempt
Backoff ==
  /\ r_pc = "wait"
  /\ r_waits' = Append(r_waits, WaitExponential(attempt_number))
  /\ r_pc' = "attempt"
  /\ UNCHANGED <<attempt_number, network_calls, r_raised, r_outcome>>
  /\ UNCHANGED notRequestVars

RequestNext ==
  \/ AttemptRejected
  \/ AttemptSent
  \/ Backoff

SpecRequest == RequestInit /\ [][RequestNext]_vars

\* C19: a request whose rendered URL exceeds max_url_length fails with the
\* validation error after one attempt: no second attempt, no backoff wait
\* and no network call.
C19_NotRetried ==
  (r_pc # "idle" /\ SearchUrlLength(term) > max_url_length)
    => /\ attempt_number <= 1
       /\ r_waits = <<>>
       /\ network_calls = 0
       /\ r_pc = "done" => r_outcome = "ValueError"

(***************************************************************************)
(* fetch_summary step by step: one action per page.                        *)
(***************************************************************************)
\* the page sizes given to fetch_summary
PageSizes == {1, 2, 3, RetMaxDefault}

\* the records of the result set on the remote service, numbered from 1
HeldRecords(total) == [k \in 1..total |-> k]

FetchInit ==
  /\ PmcIdle
  /\ ComposeIdle
  /\ fs_pc = "loop"
  /\ total_results \in 0..MaxTotal
  /\ retmax \in PageSizes
  /\ retstart = 0
  /\ all_results = <<>>
  /\ fs_windows = <<>>
  /\ fs_result = <<>>
  /\ SplitIdle
  /\ term = <<>>
  /\ batch_size = DefaultBatchSize
  /\ FormatIdle
  /\ SearchIdle
  /\ r_pc = "idle"
  /\ attempt_number = 0
  /\ r_waits = <<>>
  /\ network_calls = 0
  /\ r_raised = "none"
  /\ r_outcome = "none"

\* lines 61-86: the request of one window; a request that fails for good is
\* logged and the loop continues (line 84 catches every Exception)
FetchPage ==
  /\ fs_pc = "loop"
  /\ retstart < total_results
  /\ fs_windows' = Append(fs_windows,
                          [retstart |-> retstart,
                           retmax |-> PageSize(retmax, total_results, retstart)])
  /\ \E request \in RequestOutcomes :
       all_results' = IF request = "ok"
                      THEN all_results
                             \o PageWindow(HeldRecords(total_results), retstart, total_results, retmax)
                      ELSE all_results
  /\ retstart' = retstart + retmax
  /\ UNCHANGED <<fs_pc, total_results, retmax, fs_result>>
  /\ UNCHANGED notFetchVars

\* lines 87-89: the range is exhausted
FetchReturn ==
  /\ fs_pc = "loop"
  /\ retstart >= total_results
  /\ fs_result' = all_results
  /\ fs_pc' = "done"
  /\ UNCHANGED <<total_results, retmax, retstart, all_results, fs_windows>>
  /\ UNCHANGED notFetchVars

FetchNext ==
  \/ FetchPage
  \/ FetchReturn

SpecFetch == FetchInit /\ [][FetchNext]_vars

\* C20: the windows fetch_summary requests start at 0, retmax, 2*retmax, ...
\* below total_results, each of size min(retmax, total_results - offset);
\* they are disjoint and, once the loop has ended, cover [0, total_results)
\* and number ceil(total_results / retmax), whether pages failed or not;
\* for total_results = 0 nothing is requested and the result is empty.
C20_Windows ==
  /\ \A k \in 1..Len(fs_windows) :
       /\ fs_windows[k].retstart = (k - 1) * retmax
       /\ fs_windows[k].retstart < total_results
       /\ fs_windows[k].retmax
            = (IF retmax < total_results - fs_windows[k].retstart
               THEN retmax ELSE total_results - fs_windows[k].retstart)
       /\ fs_windows[k].retmax >= 1
       /\ fs_windows[k].retstart + fs_windows[k].retmax <= total_results
       /\ k < Len(fs_windows)
            => fs_windows[k].retstart + fs_windows[k].retmax = fs_windows[k + 1].retstart
  /\ fs_pc = "done"
       => /\ Len(fs_windows) = (total_results + retmax - 1) \div retmax
          /\ total_results > 0
               => fs_windows[Len(fs_windows)].retstart + fs_windows[Len(fs_windows)].retmax
                    = total_results
          /\ total_results = 0 => (fs_windows = <<>> /\ fs_result = <<>>)

\* C20 witness: a result set of five records was fetched in pages of two,
\* and a page before the last one failed
C20_Witness ==
  /\ fs_pc = "done"
  /\ total_results = 5
  /\ retmax = 2
  /\ Len(fs_windows) = 3
  /\ fs_result = <<1, 2, 5>>

(***************************************************************************)
(* Properties of batch_search.                                             *)
(***************************************************************************)
\* batch_search went the batched way and has submitted every batch
Batched == batches # <<>> /\ Len(futures) = Len(batches)

Pmcids(list) == {list[k].pmcid : k \in 1..Len(list)}

\* no two entries of the list have the same pmcid
NoDuplicate(list) ==
  \A j, k \in 1..Len(list) : list[j].pmcid = list[k].pmcid => j = k

\* the first record with this pmcid that was handed to the merge
FirstMerged(pmcid) ==
  LET at == {k \in 1..Len(merge_log) : merge_log[k].pmcid = pmcid}
  IN merge_log[CHOOSE k \in at : \A j \in at : k <= j]

\* the list holds one entry per pmcid handed to the merge, each with the
\* pmid of the first record merged under that pmcid
KeepsFirst(list) ==
  /\ NoDuplicate(list)
  /\ Pmcids(list) = Pmcids(merge_log)
  /\ \A k \in 1..Len(list) : list[k].pmid = FirstMerged(list[k].pmcid).pmid

\* C2: in batched mode, when the submit-search of one batch fails until the
\* gateway's attempts are used up, batch_search raises nothing and returns a
\* list with every result of the other batches.
C2_PartialFailure ==
  (m_pc = "done" /\ Batched /\ Cardinality(exhausted) = 1)
    => /\ outcome = "returned"
       /\ \A b \in 1..Len(futures) : Pmcids(futures[b].result) \subseteq Pmcids(ret)

\* C3: the list batch_search builds and returns, single or batched, has at
\* most one entry per pmcid, and the entry kept is the one merged first,
\* with its pmid.
C3_FirstSeenWins ==
  /\ batches # <<>> => KeepsFirst(results)
  /\ outcome = "returned" => KeepsFirst(ret)

\* C3 witness: batch_search returned after two batches gave the same pmcid
\* with different pmids
C3_Witness ==
  /\ outcome = "returned"
  /\ Batched
  /\ \E j, k \in 1..Len(merge_log) :
       /\ j < k
       /\ merge_log[j].pmcid = merge_log[k].pmcid
       /\ merge_log[j].pmid # merge_log[k].pmid
       /\ merge_log[j].batch # merge_log[k].batch

\* C6: in batched mode the returned list follows submission order: a result
\* kept from an earlier batch never stands after one kept from a later batch.
C6_SubmissionOrder ==
  (outcome = "returned" /\ Batched)
    => \A j, k \in 1..Len(ret) :
         j < k => FirstMerged(ret[j].pmcid).batch <= FirstMerged(ret[k].pmcid).batch

\* the batches a pool thread is processing
Running == {b \in 1..Len(futures) : futures[b].state = "running"}

\* how often b stands in the work queue
Queued(b) == Cardinality({k \in 1..Len(queue) : queue[k] = b})

\* C7: at most 2 batches are being processed at any moment, every batch of
\* the partitioner is submitted exactly once, and no batch is processed by
\* more than one pool thread.
C7_BoundedPool ==
  /\ Cardinality(Running) <= 2
  /\ Cardinality({w \in Pool : proc[w].pc # "idle"}) <= 2
  /\ Len(futures) = next_submit - 1
  /\ (batches # <<>> /\ m_pc \in {"collect", "shutdown", "done"})
       => Len(futures) = Len(batches)
  /\ \A b \in 1..Len(futures) : Queued(b) + Cardinality(taken[b]) = 1
  /\ \A v, w \in Pool :
       (v # w /\ proc[v].pc # "idle" /\ proc[w].pc # "idle") => proc[v].unit # proc[w].unit

\* C7 witness: two batches are being processed while a third waits in the queue
C7_Witness ==
  /\ Cardinality(Running) = 2
  /\ queue # <<>>
  /\ Len(batches) = 3

\* C8: when the submit-search of the single query fails until the gateway's
\* attempts are used up, batch_search raises nothing and returns the empty list.
C8_SingleFailure ==
  (m_pc = "done" /\ 0 \in exhausted) => (outcome = "returned" /\ ret = <<>>)

\* batch_search went the Single way: the full query was or is being submitted
TookSingle ==
  \/ m_pc = "single"
  \/ 0 \in DOMAIN response
  \/ 0 \in exhausted
  \/ (m_pc = "done" /\ batches = <<>> /\ error_log = <<>>)

\* batch_search has passed its size check
Decided == m_pc \notin {"idle", "check"}

\* the batches a pool thread has taken: their first statement is client.search
SubmittedBatches == {b \in 1..Len(futures) : taken[b] # {}}

\* C12 amended: batch_search takes the Single path exactly when the URL
\* rendered for the full query is no longer than max_url_length; on the
\* Single path nothing is partitioned or dispatched, otherwise the query is
\* partitioned and the orchestrating thread submits nothing itself.
C12_SizeCheck ==
  /\ Decided => (TookSingle <=> CheckUrlLength(term) <= max_url_length)
  /\ TookSingle => (batches = <<>> /\ futures = <<>>)
  /\ (Decided /\ ~TookSingle)
       => /\ proc[0].pc = "idle"
          /\ m_pc # "done" => batches # <<>>

\* C12 as stated: the same, and in batched mode no unit given to the gateway
\* is the full query.
C12_NeverFullQuery ==
  /\ C12_SizeCheck
  /\ (Decided /\ ~TookSingle) => \A b \in SubmittedBatches : batches[b] # term

\* C12 witness: an oversized query was partitioned into two or more batches
\* and a pool thread has submitted one of them
C12_Witness ==
  /\ CheckUrlLength(term) > max_url_length
  /\ Len(batches) >= 2
  /\ SubmittedBatches # {}
  /\ \E b \in SubmittedBatches : b \in DOMAIN response

\* C13: when the query is oversized and split_terms gives no batch,
\* batch_search returns the empty list, submits no search and dispatches
\* nothing, and writes an error record; it never dispatches an empty list
\* of batches.
C13_NoBatches ==
  /\ (m_pc = "done" /\ ~TookSingle /\ batches = <<>>)
       => /\ outcome = "returned"
          /\ ret = <<>>
          /\ response = <<>>
          /\ exhausted = {}
          /\ futures = <<>>
          /\ \A t \in DOMAIN proc : proc[t].pc = "idle"
          /\ error_log = <<NoValidBatches>>
  /\ m_pc \in {"submit", "collect", "shutdown"} => batches # <<>>
  /\ error_log # <<>> => (m_pc = "done" /\ batches = <<>>)

\* C13 witness: an oversized query of two or more terms per side, none of
\* which fits the budget, has been answered
C13_Witness ==
  /\ m_pc = "done"
  /\ CheckUrlLength(term) > max_url_length
  /\ batch_size = 12
  /\ batches = <<>>
  /\ outcome = "returned"

\* C14: when the dispatch layer itself raises, batch_search falls back to
\* sequential processing and returns a merged result.
C14_SequentialFallback ==
  (m_pc = "done" /\ raised = "RuntimeError") => outcome = "returned"

\* C21: in batched mode nothing is merged into results or seen_pmcids while
\* a submitted batch is still waiting or running.
C21_MergeAfterAll ==
  (batches # <<>> /\ (results # <<>> \/ seen_pmcids # {} \/ merge_log # <<>>))
    => \A b \in 1..Len(futures) : futures[b].state = "finished"

(***************************************************************************)
(* search_pubmed_pmc: the comprehension of line 178 over the results of    *)
(* search_pmc, one result per step.                                        *)
(***************************************************************************)
\* the longest list of records behind the results given to the comprehension
MaxResults == 3

\* records of the remote service: with a pmid, without one, with the value
\* "0" that _format_article refuses, with an empty value
RecordD == [uid |-> <<"3">>, articleids |-> <<[idtype |-> "pmid", value |-> "7"]>>]

RecordE == [uid |-> <<"4">>, articleids |-> <<[idtype |-> "pmid", value |-> "0"]>>]

RecordF == [uid |-> <<"6">>, articleids |-> <<[idtype |-> "pmid", value |-> ""]>>]

FilterRecords == {RecordA, RecordC, RecordD, RecordE, RecordF}

\* what search_pmc can return: formatted records without a duplicate pmcid
PmcResultLists ==
  {SingleResults([results |-> <<>>, seen |-> {}], recs) :
     recs \in SeqsUpTo(FilterRecords, MaxResults)}

\* a slip of the condition of line 178: the pmid is not looked at
KeepInfoPmcidOnly(info) == info.pmcid # <<>>

\* line 178: info["pmcid"] and info["pmid"], by Python's truth value of a
\* str or None
KeepInfo(info) == info.pmcid # <<>> /\ info.pmid # None /\ info.pmid # ""

FilterInit ==
  /\ p_pc = "filter"
  /\ query = <<>>
  /\ start_year = 0
  /\ end_year = 0
  /\ pmc_results \in PmcResultLists
  /\ p_k = 0
  /\ p_ret = <<>>
  /\ SplitIdle
  /\ term = <<>>
  /\ batch_size = DefaultBatchSize
  /\ FormatIdle
  /\ SearchIdle
  /\ RequestIdle
  /\ ComposeIdle

\* line 178: one iteration of the comprehension
FilterStep ==
  /\ p_pc = "filter"
  /\ p_k < Len(pmc_results)
  /\ p_k' = p_k + 1
  /\ p_ret' = IF KeepInfo(pmc_results[p_k + 1])
              THEN Append(p_ret, pmc_results[p_k + 1])
              ELSE p_ret
  /\ UNCHANGED <<p_pc, pmc_results>>
  /\ UNCHANGED notFilterVars

\* line 178: the return
FilterReturn ==
  /\ p_pc = "filter"
  /\ p_k = Len(pmc_results)
  /\ p_pc' = "done"
  /\ UNCHANGED <<pmc_results, p_k, p_ret>>
  /\ UNCHANGED notFilterVars

FilterNext ==
  \/ FilterStep
  \/ FilterReturn

SpecFilter == FilterInit /\ [][FilterNext]_vars

\* a result has both identifiers
BothPresent(info) == info.pmcid # <<>> /\ info.pmid \notin {None, ""}

\* C22: search_pubmed_pmc returns exactly the results of search_pmc that
\* have a pmcid and a pmid, in their relative order; a result without a pmid
\* is not returned.
C22_FilterBothIds ==
  p_pc = "done" =>
    /\ p_ret = SelectSeq(pmc_results, BothPresent)
    /\ \A k \in 1..Len(p_ret) : p_ret[k].pmid # None

C22_Witness ==
  /\ p_pc = "done"
  /\ m_pc = "idle"
  /\ Len(p_ret) = 2
  /\ Len(pmc_results) = 3
  /\ ~BothPresent(pmc_results[2])

(***************************************************************************)
(* search_pubmed_pmc from its call: search_pmc renders the date clause and *)
(* calls batch_search, the comprehension filters what comes back.          *)
(***************************************************************************)
Digits == <<"0", "1", "2", "3", "4", "5", "6", "7", "8", "9">>

\* str(n) of a natural number, as the f-strings of lines 156 and 158 render a year
RECURSIVE IntStr(_)
IntStr(n) == IF n < 10 THEN <<Digits[n + 1]>> ELSE IntStr(n \div 10) \o <<Digits[(n % 10) + 1]>>

PDAT == <<"[", "P", "D", "A", "T", "]">>

\* lines 156-158: date_query
DateQuery(first, last) ==
  (IF first # 0 THEN IntStr(first) \o PDAT ELSE <<>>)
    \o (IF first # 0 /\ last # 0 THEN <<":">> ELSE <<>>)
    \o (IF last # 0 THEN IntStr(last) \o PDAT ELSE <<>>)

\* a slip of line 159: the date clause is not attached
SearchPmcQueryNoDate(q, first, last) == q

\* lines 155-159: the query search_pmc hands to batch_search
SearchPmcQuery(q, first, last) ==
  IF first # 0 \/ last # 0
  THEN <<"(">> \o q \o <<")">> \o AND \o DateQuery(first, last)
  ELSE q

\* the years of the callers: none, or 2023 as main.py passes
Years == {0, 2023}

\* the composed queries given to search_pubmed_pmc
PmcQueries == {create_query(Repeat(<<"a">>, k), Repeat(<<"a">>, k)) : k \in 1..MaxTerms}

\* the URL limits of the client: one that a dated query of one term pair
\* exceeds while its batch fits, and the default
PmcUrlLimits == {160, DefaultMaxUrlLength}

PmcInit ==
  /\ p_pc = "search_pmc"
  /\ query \in PmcQueries
  /\ start_year \in Years
  /\ end_year \in Years
  /\ pmc_results = <<>>
  /\ p_k = 0
  /\ p_ret = <<>>
  /\ term = <<>>
  /\ batch_size \in SearchBatchSizes
  /\ max_url_length \in PmcUrlLimits
  /\ SearchLocalsIdle
  /\ SplitIdle
  /\ FormatIdle
  /\ RequestIdle
  /\ ComposeIdle

\* search_pmc, lines 155-160: the date clause is rendered and batch_search is called
SearchPmc ==
  /\ p_pc = "search_pmc"
  /\ term' = SearchPmcQuery(query, start_year, end_year)
  /\ m_pc' = "check"
  /\ p_pc' = "batch_search"
  /\ UNCHANGED <<query, start_year, end_year, pmc_results, p_k, p_ret>>
  /\ UNCHANGED <<batch_size, max_url_length, batches, next_submit, queue, futures, proc,
                 response, results, seen_pmcids, yielded, outcome, ret, raised, error_log,
                 merge_log, exhausted, taken>>
  /\ UNCHANGED <<s_pc, api_key, api_key_length, device_terms, indicator_terms, date_part,
                 walk, s_result, in_kind, in_devices, in_indicators, emitted, pending_at,
                 emitted_at, formatVars, requestVars, fetchVars, composeVars>>

\* lines 160-162 and 177: batch_search returned, search_pmc returns its list
PmcReturn ==
  /\ p_pc = "batch_search"
  /\ m_pc = "done"
  /\ outcome = "returned"
  /\ pmc_results' = ret
  /\ p_pc' = "filter"
  /\ UNCHANGED <<p_k, p_ret>>
  /\ UNCHANGED notFilterVars

\* lines 160 and 177: an exception out of batch_search leaves search_pmc and
\* search_pubmed_pmc, neither has a handler
PmcRaise ==
  /\ p_pc = "batch_search"
  /\ m_pc = "done"
  /\ outcome \notin {"none", "returned"}
  /\ p_pc' = "raised"
  /\ UNCHANGED <<pmc_results, p_k, p_ret>>
  /\ UNCHANGED notFilterVars

PmcNext ==
  \/ SearchPmc
  \/ SearchNext
  \/ PmcReturn
  \/ PmcRaise
  \/ FilterStep
  \/ FilterReturn

SpecPmc == PmcInit /\ [][PmcNext]_vars

EndsWith(s, suffix) ==
  Len(s) >= Len(suffix) /\ SubSeq(s, Len(s) - Len(suffix) + 1, Len(s)) = suffix

\* the date clause of the call as the caller reads it: first[PDAT],
\* last[PDAT] or first[PDAT]:last[PDAT]
RenderedDate ==
  IF start_year # 0 /\ end_year # 0
  THEN IntStr(start_year) \o PDAT \o <<":">> \o IntStr(end_year) \o PDAT
  ELSE IF start_year # 0 THEN IntStr(start_year) \o PDAT ELSE IntStr(end_year) \o PDAT

\* the units of work whose search is about to be submitted to the gateway
Submitting == {proc[t].unit : t \in {t \in 0..MaxWorkers : proc[t].pc = "search"}}

\* C23: with a start year or an end year, every term submitted to the
\* gateway, and every batch emitted, ends with " AND " and the date clause.
C23_DateCarried ==
  (start_year # 0 \/ end_year # 0) =>
    /\ \A u \in Submitting : EndsWith(UnitQuery(u), AND \o RenderedDate)
    /\ \A b \in 1..Len(batches) : EndsWith(batches[b], AND \o RenderedDate)

C23_Witness ==
  /\ start_year # 0
  /\ end_year # 0
  /\ Len(batches) = 2
  /\ 2 \in Submitting
  /\ p_pc = "batch_search"

\* the same on the Single path
C23_WitnessSingle ==
  /\ start_year = 0
  /\ end_year # 0
  /\ m_pc = "single"
  /\ 0 \in Submitting

(***************************************************************************)
(* create_query step by step: one action per statement.                    *)
(***************************************************************************)
ComposeInit ==
  /\ c_pc = "devices"
  /\ c_devices \in TermLists
  /\ c_indicators \in TermLists
  /\ c_device_query = <<>>
  /\ c_indicator_query = <<>>
  /\ c_result = <<>>
  /\ PmcIdle
  /\ SplitIdle
  /\ term = <<>>
  /\ batch_size = DefaultBatchSize
  /\ FormatIdle
  /\ SearchIdle
  /\ RequestIdle

\* line 26
ComposeDevices ==
  /\ c_pc = "devices"
  /\ c_device_query' = Join(Quoted(c_devices), OR)
  /\ c_pc' = "indicators"
  /\ UNCHANGED <<c_devices, c_indicators, c_indicator_query, c_result>>
  /\ UNCHANGED notComposeVars

\* line 27
ComposeIndicators ==
  /\ c_pc = "indicators"
  /\ c_indicator_query' = Join(Quoted(c_indicators), OR)
  /\ c_pc' = "return"
  /\ UNCHANGED <<c_devices, c_indicators, c_device_query, c_result>>
  /\ UNCHANGED notComposeVars

\* line 28
ComposeReturn ==
  /\ c_pc = "return"
  /\ c_result' = <<"(">> \o c_device_query \o <<")">> \o AND
                   \o <<"(">> \o c_indicator_query \o <<")">>
  /\ c_pc' = "done"
  /\ UNCHANGED <<c_devices, c_indicators, c_device_query, c_indicator_query>>
  /\ UNCHANGED notComposeVars

ComposeNext ==
  \/ ComposeDevices
  \/ ComposeIndicators
  \/ ComposeReturn

SpecCompose == ComposeInit /\ [][ComposeNext]_vars

\* the terms each between double quotes, " OR " between neighbours
RECURSIVE OrGroup(_)
OrGroup(terms) ==
  IF terms = <<>> THEN <<>>
  ELSE <<"\"">> \o Head(terms) \o <<"\"">>
         \o (IF Tail(terms) = <<>> THEN <<>> ELSE <<" ", "O", "R", " ">> \o OrGroup(Tail(terms)))

EmptyGroups == <<"(", ")", " ", "A", "N", "D", " ", "(", ")">>

\* C24: create_query returns "(" devices ") AND (" indicators ")", each term
\* in double quotes and " OR " between the terms of a group; one " AND "
\* joins two parenthesized groups, an empty list gives "()", two empty lists
\* give "() AND ()".
C24_ComposedShape ==
  c_pc = "done" =>
    /\ c_result = <<"(">> \o OrGroup(c_devices) \o <<")", " ", "A", "N", "D", " ", "(">>
                    \o OrGroup(c_indicators) \o <<")">>
    /\ Len(Split(c_result, AND)) = 2
    /\ \A k \in 1..2 : Wrapped(Split(c_result, AND)[k])
    /\ c_devices = <<>> => Split(c_result, AND)[1] = <<"(", ")">>
    /\ c_indicators = <<>> => Split(c_result, AND)[2] = <<"(", ")">>
    /\ (c_devices = <<>> /\ c_indicators = <<>>) => c_result = EmptyGroups

\* the three statements give what the operator create_query gives
ComposeAgrees == c_pc = "done" => c_result = create_query(c_devices, c_indicators)

C24_Witness ==
  /\ c_pc = "done"
  /\ Len(c_devices) = 2
  /\ c_indicators = <<>>

(***************************************************************************)
(* _process_batch: its attempts.                                           *)
(***************************************************************************)
\* the pool thread that runs batch b
WorkerOf(b) == CHOOSE t \in Pool : proc[t].pc # "idle" /\ proc[t].unit = b

\* a future ends with a list in this step
ReturnsList(b) ==
  /\ futures[b].state = "running"
  /\ futures'[b].state = "finished"
  /\ futures'[b].exception = "none"

\* the attempts of _process_batch that do not raise RetryError: no frame is
\* past its second attempt; a non-empty list is returned by the attempt that
\* fetched it; the empty list is returned by the second attempt only, after
\* a RequestException or an empty record list; a frame goes to its next
\* attempt only after a RequestException or an empty record list.
AttemptsStep ==
  /\ \A b \in 1..Len(futures) :
       ReturnsList(b) =>
         LET p == proc[WorkerOf(b)]
         IN /\ futures'[b].result # <<>>
                 => /\ p.pc = "summary"
                    /\ p.all_results # <<>>
                    /\ futures'[b].result = FormatAll(p.all_results)
            /\ futures'[b].result = <<>>
                 => /\ p.attempt = 1
                    /\ p.pc = "search" \/ p.all_results = <<>>
  /\ \A t \in Pool :
       (proc[t].pc # "idle" /\ proc'[t].pc # "idle" /\ proc'[t].attempt # proc[t].attempt)
         => /\ proc'[t].unit = proc[t].unit
            /\ proc'[t].attempt = proc[t].attempt + 1
            /\ proc'[t].pc = "search"
            /\ proc[t].pc = "search" \/ proc[t].all_results = <<>>

\* C25: _process_batch submits the search of a batch at most twice; it
\* returns the records of the first attempt that fetched some, and the empty
\* list only once both attempts failed with a RequestException or fetched no
\* record, so a batch with zero results uses both attempts.
C25_BoundedAttempts ==
  /\ [](\A t \in Pool : proc[t].attempt < 2)
  /\ [][AttemptsStep]_vars

\* C25 witness: a batch for which the remote service holds no record has
\* returned the empty list
C25_Witness ==
  \E b \in 1..Len(futures) :
    /\ futures[b].state = "finished"
    /\ futures[b].exception = "none"
    /\ futures[b].result = <<>>
    /\ b \in DOMAIN response
    /\ response[b] = <<>>

\* the pmcids of the lists the batches returned
ReturnedPmcids == UNION {Pmcids(futures[b].result) : b \in 1..Len(futures)}

\* C26: in batched mode the pmcids of the returned list are those of the
\* lists the batches returned, each once, whatever the order in which the
\* workers finished.
C26_SameSet ==
  (m_pc = "done" /\ outcome = "returned" /\ batches # <<>>)
    => /\ Pmcids(ret) = ReturnedPmcids
       /\ Len(ret) = Cardinality(ReturnedPmcids)

\* C26 witness: two batches returned different pmcids, the second batch was
\* merged first
C26_Witness ==
  /\ m_pc = "done"
  /\ outcome = "returned"
  /\ Len(futures) = 2
  /\ Pmcids(futures[1].result) # {}
  /\ Pmcids(futures[2].result) # {}
  /\ Pmcids(futures[1].result) # Pmcids(futures[2].result)
  /\ merge_log[1].batch = 2

\* the handler of line 130 is never entered: what travels through the with
\* block is a worker's RetryError or the executor's RuntimeError, and
\* _process_batch catches every RequestException itself (line 83)
FallbackNeverEntered ==
  /\ ~IsRequestException(raised)
  /\ \A b \in 1..Len(futures) : ~IsRequestException(futures[b].exception)

\* C28: the URL _make_request builds for a query sent on the Single path is
\* within max_url_length.
C28_SingleUrlAccepted ==
  m_pc = "single" => SearchUrlLength(term) <= max_url_length

====
